---- MODULE Spec2Model ----
(***************************************************************************)
(* Model of the cryptocurrency tracker: crypto_tracker.py (CryptoTracker:  *)
(* fetch_top_50_data, process_data, analyze_data, update_excel, run) and   *)
(* generate_report.py (generate_report, main).                             *)
(*                                                                         *)
(* Python values are modelled as records [type, items]; the outcome of a   *)
(* call is [exc, val]: exc = "none" for a normal return, otherwise the     *)
(* class of the exception that leaves the call.  A DataFrame is a sequence *)
(* of rows, a row a function from column labels to values; a NaN cell is a *)
(* label that is absent from the row's DOMAIN.  Numbers are integers.      *)
(***************************************************************************)
EXTENDS Integers, Sequences, FiniteSets, TLC

VARIABLES
    entry,            \* which script was started
    pc,               \* position of the process
    cycles,           \* iterations of the while loop started so far
    clock,            \* seconds slept so far (the value datetime.now() reads)
    update_interval,  \* run()'s parameter
    wait,             \* argument of the time.sleep the process is blocked in
    response,         \* what the GET of the current iteration met
    raw_data,         \* outcome of fetch_top_50_data in the current iteration
    df,               \* outcome of process_data
    analysis,         \* outcome of analyze_data
    workbook,         \* the file at tracker.excel_file
    wrote,            \* the current call or iteration wrote the workbook
    exc,              \* the exception that left the try body or the script
    log,              \* console lines printed by the current iteration
    output_dir,       \* the output/ directory exists
    report            \* outcome of generate_report

vars == <<entry, pc, cycles, clock, update_interval, wait, response, raw_data,
          df, analysis, workbook, wrote, exc, log, output_dir, report>>

-----------------------------------------------------------------------------
(* Bounds of the model *)

MaxBatch == 2
MaxRows == 6
MaxCycles == 3

(* Program constants *)

PageSize == 50
DefaultInterval == 300
BackoffSeconds == 60
TopN == 5
VolatileN == 3
FormattedHeaderRow == 5

-----------------------------------------------------------------------------
(* Python values and call outcomes *)

PyNone == [type |-> "none", items |-> <<>>]
PyList(s) == [type |-> "list", items |-> s]
PyObject == [type |-> "object", items |-> <<>>]
PyFrame(rows) == [type |-> "frame", items |-> rows]
PyDict(d) == [type |-> "dict", items |-> d]

Ret(v) == [exc |-> "none", val |-> v]
Raise(e) == [exc |-> e, val |-> PyNone]
NotCalled == [exc |-> "not called", val |-> PyNone]

\* bool(x) for the values fetch can return: None and [] are falsy, a
\* non-empty list or a non-empty JSON object is truthy.
Truthy(v) ==
    \/ v.type = "object"
    \/ v.type = "list" /\ v.items # <<>>

Min(a, b) == IF a <= b THEN a ELSE b
Abs(x) == IF x < 0 THEN -x ELSE x

RECURSIVE SumSeq(_)
SumSeq(s) == IF s = <<>> THEN 0 ELSE Head(s) + SumSeq(Tail(s))

\* s with only the elements at the positions in keep, in order
RECURSIVE SelectIdx(_, _, _)
SelectIdx(s, keep, i) ==
    IF i > Len(s) THEN <<>>
    ELSE IF i \in keep THEN <<s[i]>> \o SelectIdx(s, keep, i + 1)
    ELSE SelectIdx(s, keep, i + 1)

-----------------------------------------------------------------------------
(* Raw records of the API and the columns of the frame *)

RawFields == <<"name", "symbol", "current_price", "market_cap",
               "total_volume", "price_change_percentage_24h">>

Columns == <<"Name", "Symbol", "Price (USD)", "Market Cap (USD)",
             "24h Volume (USD)", "24h Change (%)">>

StringColumns == {"Name", "Symbol"}

CoinNames == <<"Bitcoin", "Ethereum", "Tether", "BNB", "Solana", "XRP",
               "Cardano", "Dogecoin">>
CoinSymbols == <<"btc", "eth", "usdt", "bnb", "sol", "xrp", "ada", "doge">>

FrameCapValues == {-1, 0, 2}
ChangeValues == {-12, 2, 20}
DroppableFields == {"name", "market_cap", "price_change_percentage_24h"}

\* the i-th record of a response body: the six fields the tracker reads
\* and one it does not; the API orders by descending market cap
RawRecord(i, cap, chg) ==
    [id |-> CoinSymbols[i], name |-> CoinNames[i], symbol |-> CoinSymbols[i],
     current_price |-> 10 * i, market_cap |-> cap, total_volume |-> 7,
     price_change_percentage_24h |-> chg]

Without(rec, f) == [k \in DOMAIN rec \ {f} |-> rec[k]]

RawRecordsAt(i) ==
    LET full == {RawRecord(i, 100 - i, chg) : chg \in ChangeValues}
    IN full \cup {Without(r, f) : r \in full, f \in DroppableFields}

RECURSIVE RawBatchesOfLen(_)
RawBatchesOfLen(n) ==
    IF n = 0 THEN {<<>>}
    ELSE {Append(b, r) : b \in RawBatchesOfLen(n - 1), r \in RawRecordsAt(n)}

RawBatches == UNION {RawBatchesOfLen(n) : n \in 0..Min(MaxBatch, PageSize)}

\* What the GET of one iteration can meet: no connection, a non-2xx
\* status, a 2xx body that is not JSON, a JSON object, a JSON list
Responses ==
    {[kind |-> k, body |-> PyNone] :
        k \in {"connection_error", "http_error", "bad_json"}}
    \cup {[kind |-> "json", body |-> PyObject]}
    \cup {[kind |-> "json", body |-> PyList(b)] : b \in RawBatches}

-----------------------------------------------------------------------------
(* CryptoTracker.fetch_top_50_data *)

\* A variant whose except clause catches connection errors only
fetch_top_50_data_narrow(resp) ==
    CASE resp.kind = "connection_error" ->
            [ret |-> Ret(PyNone), log |-> <<"Error fetching data">>]
      [] resp.kind = "http_error" ->
            [ret |-> Raise("HTTPError"), log |-> <<>>]
      [] resp.kind = "bad_json" ->
            [ret |-> Raise("JSONDecodeError"), log |-> <<>>]
      [] OTHER -> [ret |-> Ret(resp.body), log |-> <<>>]

\* requests.get raises on a transport error, raise_for_status on a non-2xx
\* status, response.json() on a body that is not JSON (requests'
\* JSONDecodeError); all three are RequestExceptions and are caught.
fetch_top_50_data(resp) ==
    CASE resp.kind \in {"connection_error", "http_error", "bad_json"} ->
            [ret |-> Ret(PyNone), log |-> <<"Error fetching data">>]
      [] OTHER -> [ret |-> Ret(resp.body), log |-> <<>>]

-----------------------------------------------------------------------------
(* CryptoTracker.process_data *)

RawOf(col) ==
    LET i == CHOOSE j \in 1..Len(Columns) : Columns[j] = col IN RawFields[i]

ColumnSet == {Columns[j] : j \in 1..Len(Columns)}

\* One row of pd.DataFrame(data)[[six fields]] with the columns renamed: a
\* field the record lacks is a NaN cell.
NormalizeRecord(rec) ==
    [c \in {d \in ColumnSet : RawOf(d) \in DOMAIN rec} |-> rec[RawOf(c)]]

HasAllFields(rec) == \A j \in 1..Len(RawFields) : RawFields[j] \in DOMAIN rec

\* A variant that leaves out the records that lack a field
process_data_dropping(data) ==
    IF ~Truthy(data) THEN Ret(PyNone)
    ELSE IF data.type # "list" THEN Raise("ValueError")
    ELSE LET keep == {i \in 1..Len(data.items) : HasAllFields(data.items[i])}
             recs == SelectIdx(data.items, keep, 1)
         IN Ret(PyFrame([i \in 1..Len(recs) |-> NormalizeRecord(recs[i])]))

\* pd.DataFrame(list of dicts) has one row per dict and the union of their
\* keys as columns; selecting a column no dict has raises KeyError.
\* pd.DataFrame(dict of scalars) raises ValueError.
process_data(data) ==
    IF ~Truthy(data) THEN Ret(PyNone)
    ELSE IF data.type # "list" THEN Raise("ValueError")
    ELSE IF \E j \in 1..Len(RawFields) :
                \A i \in 1..Len(data.items) : RawFields[j] \notin DOMAIN data.items[i]
    THEN Raise("KeyError")
    ELSE Ret(PyFrame([i \in 1..Len(data.items) |-> NormalizeRecord(data.items[i])]))

-----------------------------------------------------------------------------
(* Column arithmetic of pandas: NaN cells are skipped.  A computed number  *)
(* is the rational num/den; den = 0 stands for NaN (0/0) when num = 0 and  *)
(* for an infinity otherwise.                                              *)

IsNaN(row, c) == c \notin DOMAIN row

Present(rows, c) == {i \in 1..Len(rows) : ~IsNaN(rows[i], c)}

ColumnValues(rows, c) ==
    LET kept == SelectIdx(rows, Present(rows, c), 1)
    IN [i \in 1..Len(kept) |-> kept[i][c]]

Rat(n, d) == [num |-> n, den |-> d]
NaN == Rat(0, 0)

ColSum(rows, c) == SumSeq(ColumnValues(rows, c))

ColMean(rows, c) == Rat(ColSum(rows, c), Len(ColumnValues(rows, c)))

ColMedian(rows, c) ==
    LET v == SortSeq(ColumnValues(rows, c), LAMBDA a, b : a < b)
        n == Len(v)
    IN IF n = 0 THEN NaN
       ELSE IF n % 2 = 1 THEN Rat(v[(n + 1) \div 2], 1)
       ELSE Rat(v[n \div 2] + v[n \div 2 + 1], 2)

ColMax(rows, c) ==
    LET p == Present(rows, c)
    IN IF p = {} THEN NaN
       ELSE Rat(rows[CHOOSE i \in p : \A j \in p : rows[j][c] <= rows[i][c]][c], 1)

ColMin(rows, c) ==
    LET p == Present(rows, c)
    IN IF p = {} THEN NaN
       ELSE Rat(rows[CHOOSE i \in p : \A j \in p : rows[j][c] >= rows[i][c]][c], 1)

MinOfSet(S) == CHOOSE i \in S : \A j \in S : i <= j

\* The positions of rows in the order nlargest (sign = 1) or nsmallest
\* (sign = -1) ranks them with keep='first': by value, equal values in
\* frame order, rows whose cell is NaN last.
RECURSIVE RankOrder(_, _, _, _)
RankOrder(rows, c, sign, left) ==
    IF left = {} THEN <<>>
    ELSE LET p == left \cap Present(rows, c)
             best == IF p = {} THEN MinOfSet(left)
                     ELSE MinOfSet({i \in p : \A j \in p :
                                        sign * rows[j][c] <= sign * rows[i][c]})
         IN <<best>> \o RankOrder(rows, c, sign, left \ {best})

Prefix(s, n) == SubSeq(s, 1, Min(n, Len(s)))

\* df.nlargest(n, c) and df.nsmallest(n, c): the selected rows
nlargest(rows, n, c) ==
    LET order == Prefix(RankOrder(rows, c, 1, 1..Len(rows)), n)
    IN [k \in 1..Len(order) |-> rows[order[k]]]

nsmallest(rows, n, c) ==
    LET order == Prefix(RankOrder(rows, c, -1, 1..Len(rows)), n)
    IN [k \in 1..Len(order) |-> rows[order[k]]]

\* df.head(n)
head(rows, n) == Prefix(rows, n)

\* row[[cols]] of one row
Project(row, cols) == [c \in cols \cap DOMAIN row |-> row[c]]

\* df[[cols]].to_dict('records')
Records(rows, cols) == [i \in 1..Len(rows) |-> Project(rows[i], cols)]

\* DataFrame.abs(): the absolute value of every cell; a cell holding a
\* string raises TypeError (bad operand type for abs(): 'str').
DataFrameAbs(rows) ==
    IF \E i \in 1..Len(rows) : \E c \in StringColumns : ~IsNaN(rows[i], c)
    THEN Raise("TypeError")
    ELSE Ret(PyFrame([i \in 1..Len(rows) |->
                        [c \in DOMAIN rows[i] |-> Abs(rows[i][c])]]))

-----------------------------------------------------------------------------
(* CryptoTracker.analyze_data *)

\* The entries of the dict literal before 'volatile_coins', in order.
\* nlargest(1, ...)['Name'].iloc[0] raises IndexError on a frame without rows.
AnalysisFields(rows, now) ==
    IF rows = <<>> THEN Raise("IndexError")
    ELSE Ret(PyDict(
        [timestamp |-> now,
         top_5_by_market_cap |->
            Records(head(rows, TopN),
                    {"Name", "Symbol", "Market Cap (USD)", "Price (USD)"}),
         average_price |-> ColMean(rows, "Price (USD)"),
         median_price |-> ColMedian(rows, "Price (USD)"),
         total_market_cap |-> ColSum(rows, "Market Cap (USD)"),
         highest_24h_change |->
            Project(nlargest(rows, 1, "24h Change (%)")[1], {"Name"}),
         highest_24h_change_value |-> ColMax(rows, "24h Change (%)"),
         lowest_24h_change |->
            Project(nsmallest(rows, 1, "24h Change (%)")[1], {"Name"}),
         lowest_24h_change_value |-> ColMin(rows, "24h Change (%)")]))

\* df.nlargest(3, '24h Change (%)').abs()[['Name', '24h Change (%)']]
\*   .to_dict('records')
VolatileCoins(rows) ==
    LET a == DataFrameAbs(nlargest(rows, VolatileN, "24h Change (%)"))
    IN IF a.exc # "none" THEN a
       ELSE Ret(PyList(Records(a.val.items, {"Name", "24h Change (%)"})))

WithVolatile(fields, coins) ==
    [k \in DOMAIN fields \cup {"volatile_coins"} |->
        IF k = "volatile_coins" THEN coins ELSE fields[k]]

analyze_data(frame, now) ==
    IF frame.type # "frame" THEN Raise("AttributeError")
    ELSE LET f == AnalysisFields(frame.items, now)
             v == VolatileCoins(frame.items)
         IN IF f.exc # "none" THEN f
            ELSE IF v.exc # "none" THEN v
            ELSE Ret(PyDict(WithVolatile(f.val.items, v.val.items)))

-----------------------------------------------------------------------------
(* Worksheets.  A sheet is a function from <<row, column>> (both from 1)   *)
(* to a cell; a cell is <<"s", string>>, <<"n", number>> or, for an        *)
(* f-string, <<"f", pattern, arguments>>.                                  *)

Str(s) == <<"s", s>>
Num(n) == <<"n", n>>
Fmt(pattern, args) == <<"f", pattern, args>>
Blank == Str("")

\* DataFrame.to_excel(writer, startrow=startrow, index=False): the column
\* labels in row startrow + 1, the rows of the frame below it
TableCells(header, body, startrow) ==
    [p \in ((startrow + 1)..(startrow + 1 + Len(body))) \X (1..Len(header)) |->
        IF p[1] = startrow + 1 THEN header[p[2]]
        ELSE body[p[1] - startrow - 1][p[2]]]

\* the cell to_excel writes for one cell of the frame (na_rep = '')
CellOf(row, c) ==
    IF IsNaN(row, c) THEN Blank
    ELSE IF c \in StringColumns THEN Str(row[c]) ELSE Num(row[c])

FrameCells(labels, rows, startrow) ==
    TableCells([j \in 1..Len(labels) |-> Str(labels[j])],
               [i \in 1..Len(rows) |->
                    [j \in 1..Len(labels) |-> CellOf(rows[i], labels[j])]],
               startrow)

\* status_data: a frame without column names, so its labels are 0 and 1
StatusHeader == <<Num(0), Num(1)>>
StatusRows(a) ==
    << <<Str("Status"), Str("LIVE")>>,
       <<Str("Last Updated"), Fmt("%Y-%m-%d %H:%M:%S", a.timestamp)>>,
       <<Str("Next Update In"), Str("5 minutes")>>,
       <<Blank, Blank>> >>

\* The 'Live Data' sheet: df.to_excel at the default startrow 0, then
\* status_data.to_excel at startrow=0 into the same sheet, cell by cell.
LiveDataSheet(rows, a) ==
    TableCells(StatusHeader, StatusRows(a), 0) @@ FrameCells(Columns, rows, 0)

MaxCol(sheet) == CHOOSE c \in {p[2] : p \in DOMAIN sheet} :
                    \A p \in DOMAIN sheet : p[2] <= c
MaxRow(sheet) == CHOOSE r \in {p[1] : p \in DOMAIN sheet} :
                    \A p \in DOMAIN sheet : p[1] <= r

\* the cells given the header fill and font: "for cell in worksheet[5]"
LiveDataHeaderStyle(sheet) == {<<FormattedHeaderRow, c>> : c \in 1..MaxCol(sheet)}

\* analysis_data, written as a frame without column names
AnalysisRows(a) ==
    << <<Str("Metric"), Str("Value")>>,
       <<Str("Last Updated"), Fmt("%Y-%m-%d %H:%M:%S", a.timestamp)>>,
       <<Str("Average Price (USD)"), Fmt("$%.2f", a.average_price)>>,
       <<Str("Median Price (USD)"), Fmt("$%.2f", a.median_price)>>,
       <<Str("Total Market Cap (USD)"), Fmt("$%,.2f", a.total_market_cap)>>,
       <<Str("Highest 24h Change"),
         Fmt("%s (%.2f%%)", <<a.highest_24h_change, a.highest_24h_change_value>>)>>,
       <<Str("Lowest 24h Change"),
         Fmt("%s (%.2f%%)", <<a.lowest_24h_change, a.lowest_24h_change_value>>)>>,
       <<Blank, Blank>>,
       <<Str("Top 5 by Market Cap:"), Blank>> >>
    \o [i \in 1..Len(a.top_5_by_market_cap) |->
          <<Fmt("%d. %s (%s)",
                <<i, Project(a.top_5_by_market_cap[i], {"Name", "Symbol"})>>),
            Fmt("Market Cap: $%,.2f",
                Project(a.top_5_by_market_cap[i], {"Market Cap (USD)"}))>>]
    \o << <<Blank, Blank>>, <<Str("Most Volatile Coins (24h):"), Blank>> >>
    \o [i \in 1..Len(a.volatile_coins) |->
          <<Fmt("%s", Project(a.volatile_coins[i], {"Name"})),
            Fmt("%.2f%%", Project(a.volatile_coins[i], {"24h Change (%)"}))>>]

AnalysisSheet(a) == TableCells(StatusHeader, AnalysisRows(a), 0)

NoFile == [exists |-> FALSE, sheets |-> <<>>, live |-> <<>>, analysis |-> <<>>,
           status_style |-> {}, header_style |-> {}]

-----------------------------------------------------------------------------
(* CryptoTracker.update_excel *)

\* disk_ok: the workbook file can be opened for writing
update_excel(frame, a, disk_ok) ==
    IF ~disk_ok THEN Raise("OSError")
    ELSE IF frame.type # "frame" THEN Raise("AttributeError")
    ELSE LET live == LiveDataSheet(frame.items, a)
         IN Ret([exists |-> TRUE,
                 sheets |-> <<"Live Data", "Analysis">>,
                 live |-> live,
                 analysis |-> AnalysisSheet(a),
                 status_style |-> {<<1, 2>>},
                 header_style |-> LiveDataHeaderStyle(live)])

-----------------------------------------------------------------------------
(* pd.read_excel(path): the first sheet, row 1 as the column labels *)

CellAt(sheet, p) == IF p \in DOMAIN sheet THEN sheet[p] ELSE Blank

IsBlankRow(sheet, r) == \A c \in 1..MaxCol(sheet) : CellAt(sheet, <<r, c>>) = Blank

\* the last row that holds a value (trailing empty rows are not read)
LastDataRow(sheet) ==
    LET used == {r \in 2..MaxRow(sheet) : ~IsBlankRow(sheet, r)}
    IN IF used = {} THEN 1 ELSE CHOOSE r \in used : \A q \in used : q <= r

\* [columns: the labels; rows: per row, the non-empty cells by column number]
ReadExcel(wb) ==
    LET sheet == wb.live
        ncol == MaxCol(sheet)
    IN [columns |-> [j \in 1..ncol |-> CellAt(sheet, <<1, j>>)],
        rows |-> [i \in 1..(LastDataRow(sheet) - 1) |->
                    [j \in {k \in 1..ncol : CellAt(sheet, <<i + 1, k>>) # Blank} |->
                        CellAt(sheet, <<i + 1, j>>)]]]

HasLabel(table, name) == \E j \in 1..Len(table.columns) : table.columns[j] = Str(name)
LabelIdx(table, name) ==
    CHOOSE j \in 1..Len(table.columns) : table.columns[j] = Str(name)

\* excel_data restricted to the columns names, as rows keyed by label
FrameOf(table, names) ==
    [i \in 1..Len(table.rows) |->
        [c \in {d \in names : LabelIdx(table, d) \in DOMAIN table.rows[i]} |->
            table.rows[i][LabelIdx(table, c)][2]]]

-----------------------------------------------------------------------------
(* generate_report *)

ReportColumns == {"Market Cap (USD)", "Price (USD)", "Name", "Symbol",
                  "24h Change (%)", "24h Volume"}

\* A variant that divides the total by the head
ConcentrationRatio_inverted(rows) ==
    Rat(ColSum(rows, "Market Cap (USD)") * 100,
        ColSum(head(rows, TopN), "Market Cap (USD)"))

\* excel_data.head(5)['Market Cap (USD)'].sum()
\*   / excel_data['Market Cap (USD)'].sum() * 100
ConcentrationRatio(rows) ==
    Rat(ColSum(head(rows, TopN), "Market Cap (USD)") * 100,
        ColSum(rows, "Market Cap (USD)"))

\* len(excel_data[excel_data['24h Change (%)'].abs() > k])
CountOver(rows, k) ==
    Cardinality({i \in Present(rows, "24h Change (%)") :
                    Abs(rows[i]["24h Change (%)"]) > k})

ReportContent(rows, now) ==
    [generated_on |-> now,
     count |-> Len(rows),
     total_market_cap |-> ColSum(rows, "Market Cap (USD)"),
     average_price |-> ColMean(rows, "Price (USD)"),
     median_price |-> ColMedian(rows, "Price (USD)"),
     top_5 |-> Records(head(rows, TopN),
                       {"Name", "Symbol", "Market Cap (USD)", "Price (USD)"}),
     highest_gain |-> Project(nlargest(rows, 1, "24h Change (%)")[1], {"Name"}),
     highest_gain_value |-> ColMax(rows, "24h Change (%)"),
     biggest_drop |-> Project(nsmallest(rows, 1, "24h Change (%)")[1], {"Name"}),
     biggest_drop_value |-> ColMin(rows, "24h Change (%)"),
     total_volume |-> ColSum(rows, "24h Volume"),
     average_volume |-> ColMean(rows, "24h Volume"),
     concentration |-> ConcentrationRatio(rows),
     over_5 |-> CountOver(rows, 5),
     over_10 |-> CountOver(rows, 10)]

\* ret: the value returned; caught: the exception the except clause met;
\* wrote_file: report.txt was written
generate_report(wb, now) ==
    IF ~wb.exists
    THEN [ret |-> Ret(PyNone), caught |-> "FileNotFoundError", wrote_file |-> FALSE]
    ELSE LET table == ReadExcel(wb)
         IN IF \E c \in ReportColumns : ~HasLabel(table, c)
            THEN [ret |-> Ret(PyNone), caught |-> "KeyError", wrote_file |-> FALSE]
            ELSE IF \E i \in 1..Len(table.rows) :
                      \E c \in ReportColumns \ StringColumns :
                         /\ LabelIdx(table, c) \in DOMAIN table.rows[i]
                         /\ table.rows[i][LabelIdx(table, c)][1] # "n"
            THEN [ret |-> Ret(PyNone), caught |-> "TypeError", wrote_file |-> FALSE]
            ELSE IF table.rows = <<>>
            THEN [ret |-> Ret(PyNone), caught |-> "IndexError", wrote_file |-> FALSE]
            ELSE [ret |-> Ret(PyDict(ReportContent(FrameOf(table, ReportColumns), now))),
                  caught |-> "none", wrote_file |-> TRUE]

NoReport == [ret |-> NotCalled, caught |-> "none", wrote_file |-> FALSE]

-----------------------------------------------------------------------------
(* CryptoTracker.__init__ and the two scripts *)

\* __init__(self) takes no argument besides self
CryptoTracker_init(kwargs) ==
    IF kwargs # {} THEN Raise("TypeError")
    ELSE Ret([base_url |-> "https://api.coingecko.com/api/v3",
              excel_file |-> "crypto_tracker.xlsx"])

NoResponse == [kind |-> "none", body |-> PyNone]

\* "if raw_data:"
ShouldProcess_always(raw) == TRUE

ShouldProcess(raw) == Truthy(raw)

\* The try body of one iteration of run, up to the call of time.sleep
run_try(resp, now, wb, disk_ok) ==
    LET f == fetch_top_50_data(resp)
        d == process_data(f.ret.val)
        a == analyze_data(d.val, now)
        w == update_excel(d.val, a.val.items, disk_ok)
        out(e, dd, aa, book, wr, lines) ==
            [exc |-> e, raw_data |-> f.ret, df |-> dd, analysis |-> aa,
             workbook |-> book, wrote |-> wr, log |-> f.log \o lines]
    IN IF f.ret.exc # "none" THEN out(f.ret.exc, NotCalled, NotCalled, wb, FALSE, <<>>)
       ELSE IF ~ShouldProcess(f.ret.val)
       THEN out("none", NotCalled, NotCalled, wb, FALSE, <<>>)
       ELSE IF d.exc # "none" THEN out(d.exc, d, NotCalled, wb, FALSE, <<>>)
       ELSE IF a.exc # "none" THEN out(a.exc, d, a, wb, FALSE, <<>>)
       ELSE IF w.exc # "none" THEN out(w.exc, d, a, wb, FALSE, <<>>)
       ELSE out("none", d, a, w.val, TRUE,
                <<"Excel file updated successfully", "Next update in">>)

\* A variant of the except clause that lets the exception go
ExceptHandler_reraise ==
    [pc |-> "terminated", wait |-> 0, log |-> <<"An error occurred">>]

\* "except Exception as e:" of run
ExceptHandler ==
    [pc |-> "backoff", wait |-> BackoffSeconds,
     log |-> <<"An error occurred", "Waiting 60 seconds before retrying...">>]

-----------------------------------------------------------------------------
(* The process: one of the two scripts, then the loop of run *)

Init ==
    /\ entry \in {"crypto_tracker", "generate_report"}
    /\ pc = "start"
    /\ cycles = 0
    /\ clock = 0
    /\ update_interval = DefaultInterval
    /\ wait = 0
    /\ response = NoResponse
    /\ raw_data = NotCalled
    /\ df = NotCalled
    /\ analysis = NotCalled
    /\ workbook = NoFile
    /\ wrote = FALSE
    /\ exc = "none"
    /\ log = <<>>
    /\ output_dir = FALSE
    /\ report = NoReport

\* crypto_tracker.py run as a script: CryptoTracker(), then run(300)
tracker_main ==
    /\ entry = "crypto_tracker"
    /\ pc = "start"
    /\ LET t == CryptoTracker_init({})
       IN /\ exc' = t.exc
          /\ pc' = IF t.exc = "none" THEN "running" ELSE "terminated"
    /\ update_interval' = 300
    /\ log' = <<"Starting Crypto Tracker...", "Data will update every">>
    /\ UNCHANGED <<entry, cycles, clock, wait, response, raw_data, df, analysis,
                   workbook, wrote, output_dir, report>>

\* generate_report.py run as a script: main()
main ==
    /\ entry = "generate_report"
    /\ pc = "start"
    /\ output_dir' = TRUE
    /\ LET t == CryptoTracker_init({"excel_file"})
       IN IF t.exc # "none"
          THEN /\ exc' = t.exc
               /\ pc' = "terminated"
               /\ log' = <<>>
               /\ UNCHANGED <<report, update_interval>>
          ELSE /\ exc' = "none"
               /\ report' = generate_report(workbook, clock)
               /\ pc' = "running"
               /\ update_interval' = 300
               /\ log' = <<"Generating initial analysis report...",
                           "Starting live tracking...",
                           "Starting Crypto Tracker...", "Data will update every">>
    /\ UNCHANGED <<entry, cycles, clock, wait, response, raw_data, df, analysis,
                   workbook, wrote>>

\* One iteration of "while True" up to the sleep it ends in
run_iteration ==
    /\ pc = "running"
    /\ cycles < MaxCycles
    /\ cycles' = cycles + 1
    /\ \E resp \in Responses, disk_ok \in BOOLEAN :
          LET t == run_try(resp, clock, workbook, disk_ok)
          IN /\ response' = resp
             /\ raw_data' = t.raw_data
             /\ df' = t.df
             /\ analysis' = t.analysis
             /\ workbook' = t.workbook
             /\ wrote' = t.wrote
             /\ exc' = t.exc
             /\ IF t.exc = "none"
                THEN /\ pc' = "sleep"
                     /\ wait' = update_interval
                     /\ log' = <<"Fetching data at">> \o t.log
                ELSE /\ pc' = ExceptHandler.pc
                     /\ wait' = ExceptHandler.wait
                     /\ log' = <<"Fetching data at">> \o t.log \o ExceptHandler.log
    /\ UNCHANGED <<entry, clock, update_interval, output_dir, report>>

NextIteration ==
    /\ pc' = "running"
    /\ clock' = clock + wait
    /\ wait' = 0
    /\ response' = NoResponse
    /\ raw_data' = NotCalled
    /\ df' = NotCalled
    /\ analysis' = NotCalled
    /\ wrote' = FALSE
    /\ exc' = "none"
    /\ log' = <<>>
    /\ UNCHANGED <<entry, cycles, update_interval, workbook, output_dir, report>>

\* time.sleep(update_interval) returns
interval_elapsed == pc = "sleep" /\ NextIteration

\* time.sleep(60) of the except clause returns
backoff_elapsed == pc = "backoff" /\ NextIteration

Next ==
    \/ tracker_main
    \/ main
    \/ run_iteration
    \/ interval_elapsed
    \/ backoff_elapsed

Spec == Init /\ [][Next]_vars

-----------------------------------------------------------------------------
(* The methods called directly, on frames of up to MaxRows rows *)

FrameRow(i, cap, chg) == NormalizeRecord(RawRecord(i, cap, chg))

RECURSIVE CapFrames(_)
CapFrames(n) ==
    IF n = 0 THEN {<<>>}
    ELSE {Append(f, FrameRow(n, cap, 2)) : f \in CapFrames(n - 1), cap \in FrameCapValues}

RECURSIVE ChangeFrames(_)
ChangeFrames(n) ==
    IF n = 0 THEN {<<>>}
    ELSE {Append(f, FrameRow(n, 100 - n, chg)) :
            f \in ChangeFrames(n - 1), chg \in ChangeValues}

Frames ==
    UNION {CapFrames(n) : n \in 0..MaxRows}
    \cup UNION {ChangeFrames(n) : n \in 0..Min(MaxRows, VolatileN + 1)}

\* A workbook already at tracker.excel_file that holds the columns
\* generate_report reads
ExternalColumns == <<"Name", "Symbol", "Price (USD)", "Market Cap (USD)",
                     "24h Volume", "24h Change (%)">>

ExternalWorkbook(rows) ==
    LET relabel(row) ==
            [c \in {ExternalColumns[j] : j \in {k \in 1..Len(Columns) :
                                                  Columns[k] \in DOMAIN row}} |->
                row[Columns[CHOOSE j \in 1..Len(Columns) : ExternalColumns[j] = c]]]
    IN [exists |-> TRUE, sheets |-> <<"Sheet1">>,
        live |-> TableCells(
            [j \in 1..Len(ExternalColumns) |-> Str(ExternalColumns[j])],
            [i \in 1..Len(rows) |->
                [j \in 1..Len(ExternalColumns) |->
                    LET c == ExternalColumns[j]
                    IN IF IsNaN(relabel(rows[i]), c) THEN Blank
                       ELSE IF c \in StringColumns THEN Str(relabel(rows[i])[c])
                       ELSE Num(relabel(rows[i])[c])]],
            0),
        analysis |-> <<>>, status_style |-> {}, header_style |-> {}]

\* An analysis dict of the shape analyze_data builds, for a caller of
\* update_excel: the entries before 'volatile_coins' and a list of coins
AnalysisArgs(rows, now) ==
    LET f == AnalysisFields(rows, now)
    IN IF f.exc # "none" THEN {}
       ELSE {WithVolatile(f.val.items,
                Records([i \in 1..Len(head(rows, VolatileN)) |->
                            [c \in DOMAIN rows[i] \ StringColumns |-> Abs(rows[i][c])]
                            @@ rows[i]],
                        {"Name", "24h Change (%)"}))}

InitFn ==
    /\ entry = "direct"
    /\ pc = "call"
    /\ cycles = 0
    /\ clock = 0
    /\ update_interval = DefaultInterval
    /\ wait = 0
    /\ response = NoResponse
    /\ raw_data = NotCalled
    /\ \E rows \in Frames :
          /\ df = Ret(PyFrame(rows))
          /\ workbook \in {NoFile, ExternalWorkbook(rows)}
    /\ analysis = NotCalled
    /\ wrote = FALSE
    /\ exc = "none"
    /\ log = <<>>
    /\ output_dir = FALSE
    /\ report = NoReport

\* tracker.analyze_data(df)
call_analyze_data ==
    /\ pc = "call"
    /\ pc' = "done"
    /\ analysis' = analyze_data(df.val, clock)
    /\ exc' = analysis'.exc
    /\ UNCHANGED <<entry, cycles, clock, update_interval, wait, response,
                   raw_data, df, workbook, wrote, log, output_dir, report>>

\* tracker.update_excel(df, analysis)
call_update_excel ==
    /\ pc = "call"
    /\ pc' = "written"
    /\ \E a \in AnalysisArgs(df.val.items, clock), disk_ok \in BOOLEAN :
          LET w == update_excel(df.val, a, disk_ok)
          IN /\ exc' = w.exc
             /\ wrote' = (w.exc = "none")
             /\ workbook' = IF w.exc = "none" THEN w.val ELSE workbook
    /\ UNCHANGED <<entry, cycles, clock, update_interval, wait, response,
                   raw_data, df, analysis, log, output_dir, report>>

\* generate_report(tracker)
call_generate_report ==
    /\ pc \in {"call", "written"}
    /\ pc' = "done"
    /\ report' = generate_report(workbook, clock)
    /\ exc' = "none"
    /\ log' = IF report'.caught = "none" THEN <<"Report generated successfully!">>
              ELSE <<"Error generating report">>
    /\ UNCHANGED <<entry, cycles, clock, update_interval, wait, response,
                   raw_data, df, analysis, workbook, wrote, output_dir>>

NextFn ==
    \/ call_analyze_data
    \/ call_update_excel
    \/ call_generate_report

SpecFn == InitFn /\ [][NextFn]_vars

-----------------------------------------------------------------------------
(* Properties *)

IterationEnded == pc \in {"sleep", "backoff", "terminated"} /\ cycles > 0

BodyIsList == response.kind = "json" /\ response.body.type = "list"

\* C1: the loop has the two states Running and Backoff.  An iteration that
\* ends without an exception is followed by a sleep of update_interval
\* seconds, an iteration in which an exception surfaces by a sleep of 60
\* seconds; after either sleep the next iteration runs, and no iteration
\* ends the process.
C1_LoopRecovers ==
    [][/\ (pc = "running" /\ cycles' # cycles) =>
             /\ (exc' = "none" => pc' = "sleep" /\ wait' = update_interval)
             /\ (exc' # "none" => pc' = "backoff" /\ wait' = BackoffSeconds)
       /\ (pc \in {"sleep", "backoff"}) =>
             (pc' = "running" /\ clock' = clock + wait)
       /\ (pc' = "terminated" => pc = "start")]_vars

\* an iteration fails after one that succeeded and one that failed
C1_Witness ==
    /\ pc = "backoff"
    /\ exc # "none"
    /\ clock = DefaultInterval + BackoffSeconds

MissingEverywhere(batch) ==
    \E j \in 1..Len(RawFields) :
        \A i \in 1..Len(batch) : RawFields[j] \notin DOMAIN batch[i]

FetchBoundarySwallowed ==
    /\ exc = "none"
    /\ df.exc = "not called"
    /\ analysis.exc = "not called"
    /\ ~wrote
    /\ pc = "sleep"
    /\ wait = update_interval

C3_MainReachesLoop ==
    (entry = "generate_report" /\ pc # "start")
    => /\ output_dir
       /\ report.ret.exc # "not called"
       /\ pc \in {"running", "sleep", "backoff"}

EmptySnapshot == BodyIsList /\ response.body.items = <<>>

\* C4 as stated: on an empty snapshot analyze signals a failure, no file
\* is written and the iteration logs that it was skipped.
C4_EmptySnapshotFailure ==
    (IterationEnded /\ EmptySnapshot)
    => /\ analysis.exc \notin {"none", "not called"}
       /\ ~wrote
       /\ Len(log) > 1

\* C4 amended: on an empty snapshot the iteration skips process_data,
\* analyze_data and update_excel without any exception (analyze_data is
\* not called), writes no file, prints nothing after the fetch banner and
\* sleeps update_interval.
C4_EmptySnapshotSkipped ==
    (IterationEnded /\ EmptySnapshot)
    => /\ exc = "none"
       /\ df.exc = "not called"
       /\ analysis.exc = "not called"
       /\ ~wrote
       /\ log = <<"Fetching data at">>
       /\ pc = "sleep"
       /\ wait = update_interval

C4_Witness == pc = "sleep" /\ EmptySnapshot /\ cycles > 1

\* C5 as stated: after update_excel the 'Live Data' sheet holds the status
\* block, then the header row and every row of the snapshot, none of whose
\* cells the status block has overwritten (here in its weakest form: at
\* some start row the cells of the frame are all in the sheet).
C5_LiveDataRoundTrip ==
    (pc = "written" /\ wrote)
    => \E start \in 0..MaxRow(workbook.live) :
          LET cells == FrameCells(Columns, df.val.items, start)
          IN \A p \in DOMAIN cells : CellAt(workbook.live, p) = cells[p]

ReportDone ==
    /\ pc = "done"
    /\ report.caught = "none"
    /\ report.ret.val.type = "dict"

NonNegativeCaps(rows) ==
    /\ rows # <<>>
    /\ \A i \in 1..Len(rows) :
          ~IsNaN(rows[i], "Market Cap (USD)") /\ rows[i]["Market Cap (USD)"] >= 0

InPercentRange(r) == r.den > 0 /\ 0 <= r.num /\ r.num <= 100 * r.den

AnalyzeReturned == pc = "done" /\ analysis.exc # "not called" /\ df.val.items # <<>>

AbsChange(rows) ==
    [i \in 1..Len(rows) |->
        [c \in DOMAIN rows[i] |->
            IF c = "24h Change (%)" THEN Abs(rows[i][c]) ELSE rows[i][c]]]

\* C7 as stated: analyze returns as volatile coins the min(3, size) records
\* with the largest absolute 24h change, in descending order of absolute
\* change, ties in snapshot order.
C7_VolatileByAbsoluteChange ==
    AnalyzeReturned
    => /\ analysis.exc = "none"
       /\ analysis.val.items.volatile_coins =
            Records(nlargest(AbsChange(df.val.items), VolatileN, "24h Change (%)"),
                    {"Name", "24h Change (%)"})

ProcessCalled == IterationEnded /\ BodyIsList /\ response.body.items # <<>>

\* C8 as stated: process_data outputs the records that have all six
\* fields, renamed and in source order, and silently drops the others.
C8_IncompleteRecordsDropped ==
    ProcessCalled
    => /\ df.exc = "none"
       /\ df.val.type = "frame"
       /\ LET batch == response.body.items
              kept == SelectIdx(batch, {i \in 1..Len(batch) : HasAllFields(batch[i])}, 1)
          IN /\ Len(df.val.items) = Len(kept)
             /\ \A i \in 1..Len(kept) : \A j \in 1..Len(RawFields) :
                   /\ Columns[j] \in DOMAIN df.val.items[i]
                   /\ df.val.items[i][Columns[j]] = kept[i][RawFields[j]]

\* C8 amended: process_data outputs one row per raw record, in source
\* order, holding the six fields renamed and nothing else; a field the
\* record lacks is a missing value in its row and the record is kept.  When
\* a required field is in no record of the batch, process_data raises
\* KeyError and the iteration takes the 60-second path.
C8_IncompleteRecordsKept ==
    ProcessCalled
    => LET batch == response.body.items
       IN IF MissingEverywhere(batch)
          THEN df.exc = "KeyError" /\ exc = "KeyError" /\ pc = "backoff"
          ELSE /\ df.exc = "none"
               /\ df.val.type = "frame"
               /\ Len(df.val.items) = Len(batch)
               /\ \A i \in 1..Len(batch) :
                     /\ DOMAIN df.val.items[i] \subseteq ColumnSet
                     /\ \A j \in 1..Len(RawFields) :
                           IF RawFields[j] \in DOMAIN batch[i]
                           THEN /\ Columns[j] \in DOMAIN df.val.items[i]
                                /\ df.val.items[i][Columns[j]] = batch[i][RawFields[j]]
                           ELSE Columns[j] \notin DOMAIN df.val.items[i]

\* a batch of two records, the first without its market cap, kept as a row
C8_Witness ==
    /\ ProcessCalled
    /\ df.exc = "none"
    /\ Len(response.body.items) = 2
    /\ "market_cap" \notin DOMAIN response.body.items[1]
    /\ Len(df.val.items) = 2
    /\ IsNaN(df.val.items[1], "Market Cap (USD)")

FirstWith(rows, c, v) ==
    rows[MinOfSet({i \in Present(rows, c) : rows[i][c] = v})]

\* C9 as stated: for every non-empty snapshot the record reported as
\* highest (lowest) 24h change attains the maximum (minimum), name and
\* value belong to the same record, and of several records that share the
\* extreme the first in snapshot order is reported.
C9_ExtremesReported ==
    AnalyzeReturned
    => /\ analysis.exc = "none"
       /\ LET rows == df.val.items
              a == analysis.val.items
              hi == ColMax(rows, "24h Change (%)")
              lo == ColMin(rows, "24h Change (%)")
          IN /\ a.highest_24h_change_value = hi
             /\ a.lowest_24h_change_value = lo
             /\ a.highest_24h_change =
                  Project(FirstWith(rows, "24h Change (%)", hi.num), {"Name"})
             /\ a.lowest_24h_change =
                  Project(FirstWith(rows, "24h Change (%)", lo.num), {"Name"})

WellFormedBatch ==
    /\ BodyIsList
    /\ response.body.items # <<>>
    /\ \A i \in 1..Len(response.body.items) : HasAllFields(response.body.items[i])

\* C10 as stated: an iteration whose fetch returns a non-empty batch of
\* complete records runs process_data, analyze_data and update_excel to
\* completion, overwrites the workbook and then waits update_interval.
C10_CompleteBatchWritten ==
    (IterationEnded /\ WellFormedBatch)
    => /\ exc = "none"
       /\ analysis.exc = "none"
       /\ wrote
       /\ workbook.exists
       /\ pc = "sleep"
       /\ wait = update_interval

====
